---- MODULE Spec2Model ----
(***************************************************************************)
(* Block-parser abstraction layer of liquid-rust (src/compiler/block.rs):  *)
(* the ParseBlock trait, its hidden clone_box duplication, the function    *)
(* adapter FnBlockParser and the unifying handle BoxedBlockParser.         *)
(*                                                                         *)
(* Values.  A Box<ParseBlock> is an index into `boxes` (the heap of owned  *)
(* parser objects); an Arc held by a parser object is an index into        *)
(* `cells`.  A handle is a record [parser |-> e] where e is the            *)
(* BlockParserEnum value, Fun(fp) or Heap(b): a record with the case, the  *)
(* FnBlockParser held (case Fun) and the box held (case Heap).  Every      *)
(* operation returns, next to its value, the list of calls it made         *)
(* (`calls`), so that what a handle invokes is part of what is verified.   *)
(* A parser object's parse only reads its state (it takes &self); a change *)
(* of that state is the separate step SetState.                            *)
(***************************************************************************)
EXTENDS Integers, Sequences, FiniteSets, TLC

VARIABLES handles, origin, boxes, cells, last, pc, th, tin, tret

vars == <<handles, origin, boxes, cells, last, pc, th, tin, tret>>

(* ------------------------------ bounds -------------------------------- *)
\* handles built by a conversion, handles alive, argument tokens of one call
MaxRoots == 1
MaxHandles == 3
MaxArgs == 1

(* ------------------------------ inputs -------------------------------- *)
TagNames == {"noop", "fail"}
Tokens == {"tok"}
Configs == {"cfg1", "cfg2"}

SeqsUpTo(S, n) == UNION {[1..k -> S] : k \in 0..n}

ArgLists == SeqsUpTo(Tokens, MaxArgs)
BodyLists == {<<>>, <<"elem">>}

\* One call's four parameters, named as in the signature of ParseBlock::parse.
Inputs ==
    [tag_name : TagNames, arguments : ArgLists, tokens : BodyLists, options : Configs]

\* The argument counts a parser object may expect.
States == {0, 1}

(* ------------------------------ results ------------------------------- *)
Ok(node) == [ok |-> TRUE, val |-> node]
Err(kind, msg) == [ok |-> FALSE, val |-> [kind |-> kind, msg |-> msg]]
IsErr(r) == ~r.ok

EmptyNode == [node |-> "empty"]
BlockNode(n, a, b, c) == [node |-> "block", tag |-> n, args |-> a, body |-> b, opt |-> c]
ArityNode(k) == [node |-> "arity", expects |-> k]

NoInput == [tag_name |-> "", arguments |-> <<>>, tokens |-> <<>>, options |-> ""]
NoRet == [ok |-> TRUE, val |-> [node |-> "none"]]

(* ----------------- parsers handed to the handle ----------------------- *)
\* Function references of type FnParseBlock.
Fns == {"noop_block", "strict_block"}

\* What calling the function reference f with the four parameters returns.
FnApply(f, n, a, b, c) ==
    CASE f = "noop_block" -> Ok(EmptyNode)
      [] f = "strict_block" ->
            IF Len(a) = 0
            THEN Err("Parser", <<n, "requires an argument", c>>)
            ELSE IF Len(b) = 0
                 THEN Err("Parser", <<n, "has an empty body", a>>)
                 ELSE Ok(BlockNode(n, a, b, c))

\* Concrete types implementing ParseBlock + Clone:
\*   FailOnArgs  - no fields;
\*   OwnedArity  - holds its expected argument count by value;
\*   SharedArity - holds its expected argument count behind an Arc.
ObjTypes == {"FailOnArgs", "OwnedArity", "SharedArity"}

\* The internal state a parser object reads when it parses.
ObjState(o, cl) ==
    CASE o.type = "FailOnArgs" -> 0
      [] o.type = "OwnedArity" -> o.arity
      [] o.type = "SharedArity" -> cl[o.arc]

\* <T as ParseBlock>::parse for the object o (cl: the Arc cells).
ObjParse(o, cl, n, a, b, c) ==
    CASE o.type = "FailOnArgs" ->
            IF Len(a) # 0
            THEN Err("ArgumentCount", <<n, "takes no arguments">>)
            ELSE Ok(EmptyNode)
      [] OTHER ->
            IF Len(a) # ObjState(o, cl)
            THEN Err("ArgumentCount", <<n, "expects", ObjState(o, cl)>>)
            ELSE Ok(ArityNode(ObjState(o, cl)))

\* <T as Clone>::clone: fields held by value are copied, an Arc field is
\* copied as a pointer to the same cell.
TypeClone(o) ==
    CASE o.type = "FailOnArgs" -> [type |-> "FailOnArgs"]
      [] o.type = "OwnedArity" -> [type |-> "OwnedArity", arity |-> o.arity]
      [] o.type = "SharedArity" -> [type |-> "SharedArity", arc |-> o.arc]

(* --------------------------- call records ----------------------------- *)
\* One entry of the list of calls an operation made: the callee, the function
\* reference or the box it was made on, and the parameters passed.
Call(callee, f, b, x) == [callee |-> callee, fn |-> f, box |-> b, args |-> x]

X(n, a, b, c) == [tag_name |-> n, arguments |-> a, tokens |-> b, options |-> c]

(* --------------------------- FnBlockParser ---------------------------- *)
FnBlockParser_new(parser) == [parser |-> parser]

\* Mutant: the argument tokens and the body elements change places in the call.
FnBlockParser_parse_swapped(self, n, a, b, c) ==
    [ret |-> FnApply(self.parser, n, b, a, c),
     calls |-> <<Call("fn", self.parser, 0, X(n, b, a, c))>>]

\* impl ParseBlock for FnBlockParser: (self.parser)(tag_name, arguments, tokens, options)
FnBlockParser_parse(self, n, a, b, c) ==
    [ret |-> FnApply(self.parser, n, a, b, c),
     calls |-> <<Call("fn", self.parser, 0, X(n, a, b, c))>>]

\* #[derive(Clone)] struct FnBlockParser: the function reference is copied.
FnBlockParser_clone(self) == [parser |-> self.parser]

(* ------------------- ParseBlockClone / Box<ParseBlock> ---------------- *)
\* Mutant: the copy is a default-constructed object, not a copy of self.
clone_box_default(b, bx) ==
    [box |-> Len(bx) + 1,
     boxes |-> Append(bx, IF bx[b].type = "OwnedArity"
                          THEN [type |-> "OwnedArity", arity |-> 0]
                          ELSE TypeClone(bx[b])),
     calls |-> <<Call("T::clone", "", b, NoInput)>>]

\* Mutant: no copy is made, the clone points to the box of the original.
clone_box_alias(b, bx) ==
    [box |-> b, boxes |-> bx, calls |-> <<Call("T::clone", "", b, NoInput)>>]

\* Mutant: the object is moved into the new box and the original is left reset.
clone_box_take(b, bx) ==
    [box |-> Len(bx) + 1,
     boxes |-> Append([bx EXCEPT ![b] = IF bx[b].type = "OwnedArity"
                                         THEN [type |-> "OwnedArity", arity |-> 0]
                                         ELSE bx[b]],
                      bx[b]),
     calls |-> <<Call("T::clone", "", b, NoInput)>>]

\* impl<T> ParseBlockClone for T: Box::new(self.clone()) on the object in box b
\* of the heap bx; the copy goes into a freshly allocated box.
clone_box(b, bx) ==
    [box |-> Len(bx) + 1,
     boxes |-> Append(bx, TypeClone(bx[b])),
     calls |-> <<Call("T::clone", "", b, NoInput)>>]

\* Mutant: clone_box is called on the original and again on the copy.
Box_clone_twice(b, bx) ==
    LET r1 == clone_box(b, bx)
        r2 == clone_box(r1.box, r1.boxes)
    IN  [box |-> r2.box,
         boxes |-> r2.boxes,
         calls |-> <<Call("clone_box", "", b, NoInput)>> \o r1.calls
                   \o <<Call("clone_box", "", r1.box, NoInput)>> \o r2.calls]

\* impl Clone for Box<ParseBlock>: self.clone_box()
Box_clone(b, bx) ==
    LET r == clone_box(b, bx)
    IN  [box |-> r.box,
         boxes |-> r.boxes,
         calls |-> <<Call("clone_box", "", b, NoInput)>> \o r.calls]

(* ------------------ BlockParserEnum / BoxedBlockParser ---------------- *)
Fun(fp) == [case |-> "Fun", f |-> fp, box |-> 0]
Heap(b) == [case |-> "Heap", f |-> [parser |-> ""], box |-> b]

\* #[derive(Clone)] enum BlockParserEnum
BlockParserEnum_clone(e, bx) ==
    CASE e.case = "Fun" ->
            [val |-> Fun(FnBlockParser_clone(e.f)),
             boxes |-> bx,
             calls |-> <<Call("FnBlockParser::clone", e.f.parser, 0, NoInput)>>]
      [] e.case = "Heap" ->
            LET r == Box_clone(e.box, bx)
            IN  [val |-> Heap(r.box),
                 boxes |-> r.boxes,
                 calls |-> <<Call("Box::clone", "", e.box, NoInput)>> \o r.calls]

\* #[derive(Clone)] struct BoxedBlockParser
BoxedBlockParser_clone(self, bx) ==
    LET r == BlockParserEnum_clone(self.parser, bx)
    IN  [val |-> [parser |-> r.val], boxes |-> r.boxes, calls |-> r.calls]

\* Mutant: the Heap arm forwards an empty argument list.
BoxedBlockParser_parse_noargs(self, bx, cl, n, a, b, c) ==
    CASE self.parser.case = "Fun" ->
            LET r == FnBlockParser_parse(self.parser.f, n, a, b, c)
            IN  [ret |-> r.ret,
                 calls |-> <<Call("FnBlockParser::parse", self.parser.f.parser, 0,
                                  X(n, a, b, c))>> \o r.calls]
      [] self.parser.case = "Heap" ->
            [ret |-> ObjParse(bx[self.parser.box], cl, n, <<>>, b, c),
             calls |-> <<Call("ParseBlock::parse", "", self.parser.box, X(n, <<>>, b, c))>>]

\* Mutant: a failure of the wrapped parser is wrapped into a failure of the handle.
BoxedBlockParser_parse_wrap(self, bx, cl, n, a, b, c) ==
    LET r == IF self.parser.case = "Fun"
             THEN FnBlockParser_parse(self.parser.f, n, a, b, c).ret
             ELSE ObjParse(bx[self.parser.box], cl, n, a, b, c)
    IN  [ret |-> IF IsErr(r) THEN Err("Parser", <<"block", n, r.val.msg>>) ELSE r,
         calls |-> IF self.parser.case = "Fun"
                   THEN <<Call("FnBlockParser::parse", self.parser.f.parser, 0,
                               X(n, a, b, c)),
                          Call("fn", self.parser.f.parser, 0, X(n, a, b, c))>>
                   ELSE <<Call("ParseBlock::parse", "", self.parser.box, X(n, a, b, c))>>]

\* Mutant: after a failure the wrapped parser is called a second time.
BoxedBlockParser_parse_retry(self, bx, cl, n, a, b, c) ==
    LET r == IF self.parser.case = "Fun"
             THEN FnBlockParser_parse(self.parser.f, n, a, b, c).ret
             ELSE ObjParse(bx[self.parser.box], cl, n, a, b, c)
        once == IF self.parser.case = "Fun"
                THEN <<Call("FnBlockParser::parse", self.parser.f.parser, 0,
                            X(n, a, b, c)),
                       Call("fn", self.parser.f.parser, 0, X(n, a, b, c))>>
                ELSE <<Call("ParseBlock::parse", "", self.parser.box, X(n, a, b, c))>>
    IN  [ret |-> r, calls |-> IF IsErr(r) THEN once \o once ELSE once]

\* impl ParseBlock for BoxedBlockParser: match self.parser { Fun(ref f) => f.parse(..),
\* Heap(ref f) => f.parse(..) }
BoxedBlockParser_parse(self, bx, cl, n, a, b, c) ==
    CASE self.parser.case = "Fun" ->
            LET r == FnBlockParser_parse(self.parser.f, n, a, b, c)
            IN  [ret |-> r.ret,
                 calls |-> <<Call("FnBlockParser::parse", self.parser.f.parser, 0,
                                  X(n, a, b, c))>> \o r.calls]
      [] self.parser.case = "Heap" ->
            [ret |-> ObjParse(bx[self.parser.box], cl, n, a, b, c),
             calls |-> <<Call("ParseBlock::parse", "", self.parser.box, X(n, a, b, c))>>]

\* Mutant: the conversion leaves the handle without a parser.
From_FnParseBlock_empty(parser) == [parser |-> [case |-> "Empty", f |-> [parser |-> ""], box |-> 0]]

\* impl From<FnParseBlock> for BoxedBlockParser
From_FnParseBlock(parser) == [parser |-> Fun(FnBlockParser_new(parser))]

\* impl From<Box<ParseBlock>> for BoxedBlockParser
From_BoxParseBlock(parser) == [parser |-> Heap(parser)]

(* ------------------------------ state --------------------------------- *)
\* handles : the BoxedBlockParser values alive, in creation order
\* origin  : for each handle, the handle it descends from by cloning (itself
\*           when it was built by a conversion)
\* boxes   : the heap of boxed parser objects
\* cells   : the Arc-allocated cells parser objects may point to
\* last    : the last operation, with its parameters, result and calls
\* pc, th, tin, tret : two threads parsing (specification SpecConc)
Threads == {1, 2}

Op(op, h, src, x, ret, calls) ==
    [op |-> op, h |-> h, src |-> src, x |-> x, ret |-> ret, calls |-> calls]

\* The record of a conversion: what was handed to BoxedBlockParser::from.
Given(f, b) == <<Call("from", f, b, NoInput)>>

IdleThreads ==
    /\ pc = [t \in Threads |-> "idle"]
    /\ th = [t \in Threads |-> 0]
    /\ tin = [t \in Threads |-> NoInput]
    /\ tret = [t \in Threads |-> NoRet]

\* The handles built by a conversion (the others are clones).
Roots == {h \in DOMAIN origin : origin[h] = h}

Init ==
    /\ handles = <<>>
    /\ origin = <<>>
    /\ boxes = <<>>
    /\ cells = <<>>
    /\ last = Op("init", 0, 0, NoInput, NoRet, <<>>)
    /\ IdleThreads

\* BoxedBlockParser::from(f) for a function reference f.
FromFn(f) ==
    /\ Len(handles) < MaxHandles
    /\ Cardinality(Roots) < MaxRoots
    /\ handles' = Append(handles, From_FnParseBlock(f))
    /\ origin' = Append(origin, Len(handles) + 1)
    /\ last' = Op("from_fn", Len(handles) + 1, 0, NoInput, NoRet, Given(f, 0))
    /\ UNCHANGED <<boxes, cells, pc, th, tin, tret>>

\* BoxedBlockParser::from(Box::new(o)) for a new parser object o of type ty whose
\* internal state is s (a SharedArity object comes with its own new Arc cell).
FromBox(ty, s) ==
    /\ Len(handles) < MaxHandles
    /\ Cardinality(Roots) < MaxRoots
    /\ ty = "FailOnArgs" => s = 0
    /\ LET o == CASE ty = "FailOnArgs" -> [type |-> ty]
                  [] ty = "OwnedArity" -> [type |-> ty, arity |-> s]
                  [] ty = "SharedArity" -> [type |-> ty, arc |-> Len(cells) + 1]
       IN  /\ boxes' = Append(boxes, o)
           /\ cells' = IF ty = "SharedArity" THEN Append(cells, s) ELSE cells
    /\ handles' = Append(handles, From_BoxParseBlock(Len(boxes) + 1))
    /\ origin' = Append(origin, Len(handles) + 1)
    /\ last' = Op("from_box", Len(handles) + 1, 0, NoInput, NoRet, Given("", Len(boxes) + 1))
    /\ UNCHANGED <<pc, th, tin, tret>>

\* handles[h].clone()
CloneHandle(h) ==
    /\ Len(handles) < MaxHandles
    /\ LET r == BoxedBlockParser_clone(handles[h], boxes)
       IN  /\ handles' = Append(handles, r.val)
           /\ boxes' = r.boxes
           /\ last' = Op("clone", Len(handles) + 1, h, NoInput, NoRet, r.calls)
    /\ origin' = Append(origin, origin[h])
    /\ UNCHANGED <<cells, pc, th, tin, tret>>

\* handles[h].parse(x.tag_name, x.arguments, x.tokens, x.options)
Parse(h, x) ==
    /\ LET r == BoxedBlockParser_parse(handles[h], boxes, cells,
                                       x.tag_name, x.arguments, x.tokens, x.options)
       IN  last' = Op("parse", h, 0, x, r.ret, r.calls)
    /\ UNCHANGED <<handles, origin, boxes, cells, pc, th, tin, tret>>

\* The internal state of the parser object held by handle h is changed to v
\* through that object (interior mutability behind &self).
SetState(h, v) ==
    /\ handles[h].parser.case = "Heap"
    /\ LET b == handles[h].parser.box
           o == boxes[b]
       IN  /\ o.type \in {"OwnedArity", "SharedArity"}
           /\ ObjState(o, cells) # v
           /\ IF o.type = "OwnedArity"
              THEN /\ boxes' = [boxes EXCEPT ![b] = [type |-> "OwnedArity", arity |-> v]]
                   /\ cells' = cells
              ELSE /\ cells' = [cells EXCEPT ![o.arc] = v]
                   /\ boxes' = boxes
    /\ last' = Op("set", h, 0, NoInput, NoRet, <<>>)
    /\ UNCHANGED <<handles, origin, pc, th, tin, tret>>

Next ==
    \/ \E f \in Fns : FromFn(f)
    \/ \E ty \in ObjTypes, s \in States : FromBox(ty, s)
    \/ \E h \in DOMAIN handles : CloneHandle(h)
    \/ \E h \in DOMAIN handles, x \in Inputs : Parse(h, x)
    \/ \E h \in DOMAIN handles, v \in States : SetState(h, v)

Spec == Init /\ [][Next]_vars

(* ----------------------- two threads parsing -------------------------- *)
\* A handle h and h.clone(), each used by one thread.  A call of
\* BoxedBlockParser::parse is taken apart into its steps: the call, the match
\* on self.parser, and the call of the arm taken.
InitConc ==
    /\ \E f \in Fns \cup ObjTypes, s \in States :
          /\ f \in Fns \cup {"FailOnArgs"} => s = 0
          /\ LET bx == IF f \in Fns THEN <<>>
                       ELSE IF f = "FailOnArgs" THEN <<[type |-> f]>>
                       ELSE IF f = "OwnedArity" THEN <<[type |-> f, arity |-> s]>>
                       ELSE <<[type |-> f, arc |-> 1]>>
                 h == IF f \in Fns THEN From_FnParseBlock(f) ELSE From_BoxParseBlock(1)
                 r == BoxedBlockParser_clone(h, bx)
             IN  /\ handles = <<h, r.val>>
                 /\ boxes = r.boxes
                 /\ cells = IF f = "SharedArity" THEN <<s>> ELSE <<>>
                 /\ last = Op("clone", 2, 1, NoInput, NoRet, r.calls)
    /\ origin = <<1, 1>>
    /\ pc = [t \in Threads |-> "idle"]
    /\ th = [t \in Threads |-> t]
    /\ tin = [t \in Threads |-> NoInput]
    /\ tret = [t \in Threads |-> NoRet]

\* Thread t calls handles[th[t]].parse(x.tag_name, x.arguments, x.tokens, x.options).
T_Call(t, x) ==
    /\ pc[t] = "idle"
    /\ pc' = [pc EXCEPT ![t] = "match"]
    /\ tin' = [tin EXCEPT ![t] = x]
    /\ UNCHANGED <<handles, origin, boxes, cells, last, th, tret>>

\* match self.parser
T_Match(t) ==
    /\ pc[t] = "match"
    /\ pc' = [pc EXCEPT ![t] =
                 IF handles[th[t]].parser.case = "Fun" THEN "fun" ELSE "heap"]
    /\ UNCHANGED <<handles, origin, boxes, cells, last, th, tin, tret>>

\* Mutant: the call goes through a parameter buffer that the threads share, so a
\* thread may be served the parameters of the other call.
T_Fun_shared(t) ==
    /\ pc[t] = "fun"
    /\ LET u == IF pc[3 - t] \in {"match", "fun", "heap"} THEN 3 - t ELSE t
       IN  tret' = [tret EXCEPT ![t] =
                       FnBlockParser_parse(handles[th[t]].parser.f, tin[u].tag_name,
                                           tin[u].arguments, tin[u].tokens,
                                           tin[u].options).ret]
    /\ pc' = [pc EXCEPT ![t] = "done"]
    /\ UNCHANGED <<handles, origin, boxes, cells, last, th, tin>>

\* BlockParserEnum::Fun(ref f) => f.parse(tag_name, arguments, tokens, options)
T_Fun(t) ==
    /\ pc[t] = "fun"
    /\ tret' = [tret EXCEPT ![t] =
                   FnBlockParser_parse(handles[th[t]].parser.f, tin[t].tag_name,
                                       tin[t].arguments, tin[t].tokens,
                                       tin[t].options).ret]
    /\ pc' = [pc EXCEPT ![t] = "done"]
    /\ UNCHANGED <<handles, origin, boxes, cells, last, th, tin>>

\* BlockParserEnum::Heap(ref f) => f.parse(tag_name, arguments, tokens, options)
T_Heap(t) ==
    /\ pc[t] = "heap"
    /\ tret' = [tret EXCEPT ![t] =
                   ObjParse(boxes[handles[th[t]].parser.box], cells, tin[t].tag_name,
                            tin[t].arguments, tin[t].tokens, tin[t].options)]
    /\ pc' = [pc EXCEPT ![t] = "done"]
    /\ UNCHANGED <<handles, origin, boxes, cells, last, th, tin>>

NextConc ==
    \/ \E t \in Threads, x \in Inputs : T_Call(t, x)
    \/ \E t \in Threads : T_Match(t)
    \/ \E t \in Threads : T_Fun(t)
    \/ \E t \in Threads : T_Heap(t)

SpecConc == InitConc /\ [][NextConc]_vars

(* ============================ properties ============================== *)
\* What the parser wrapped by the handle hv returns when called directly.
WrappedRet(hv, bx, cl, x) ==
    IF hv.parser.case = "Fun"
    THEN FnApply(hv.parser.f.parser, x.tag_name, x.arguments, x.tokens, x.options)
    ELSE ObjParse(bx[hv.parser.box], cl, x.tag_name, x.arguments, x.tokens, x.options)

\* What hv.parse returns for the parameters x on the heap (bx, cl).
ParseRet(hv, bx, cl, x) ==
    BoxedBlockParser_parse(hv, bx, cl, x.tag_name, x.arguments, x.tokens, x.options).ret

IsRoot(h) == origin[h] = h
HeapObj(h) == boxes[handles[h].parser.box]
IsFun(h) == handles[h].parser.case = "Fun"
IsHeap(h) == handles[h].parser.case = "Heap"
IsHeapOf(h, ty) == IsHeap(h) /\ HeapObj(h).type = ty
Callees(cs) == {cs[i].callee : i \in DOMAIN cs}

\* C1 - Function pass-through: a parse through a handle built from a function
\* reference f returns exactly what f returns for the same four parameters,
\* a renderable node or a failure alike.
FnPassThrough ==
    (last.op = "parse" /\ IsRoot(last.h) /\ IsFun(last.h)) =>
        \E f \in Fns :
            /\ handles[last.h] = From_FnParseBlock(f)
            /\ last.ret = FnApply(f, last.x.tag_name, last.x.arguments,
                                  last.x.tokens, last.x.options)

\* C1 witness: a handle built from strict_block has parsed a block with an
\* argument and a body and returned the node strict_block builds.
FnPassThroughWitness ==
    /\ last.op = "parse" /\ IsRoot(last.h) /\ IsFun(last.h)
    /\ handles[last.h].parser.f.parser = "strict_block"
    /\ Len(last.x.arguments) = 1 /\ Len(last.x.tokens) = 1
    /\ last.ret.ok /\ last.ret.val.node = "block"

\* C2 - Object pass-through: a parse through a handle built from a boxed parser
\* object o returns exactly what o.parse returns; for the FailOnArgs object that
\* is an ArgumentCount failure with one argument token and a success with none.
ObjPassThrough ==
    (last.op = "parse" /\ IsRoot(last.h) /\ IsHeap(last.h)) =>
        /\ handles[last.h] = From_BoxParseBlock(handles[last.h].parser.box)
        /\ last.ret = ObjParse(HeapObj(last.h), cells, last.x.tag_name,
                               last.x.arguments, last.x.tokens, last.x.options)
        /\ HeapObj(last.h).type = "FailOnArgs" =>
              /\ Len(last.x.arguments) = 1 =>
                    IsErr(last.ret) /\ last.ret.val.kind = "ArgumentCount"
              /\ Len(last.x.arguments) = 0 => last.ret.ok

\* C2 witness: the handle of a FailOnArgs object was called with one argument
\* token and failed with ArgumentCount.
ObjPassThroughWitness ==
    /\ last.op = "parse" /\ IsRoot(last.h) /\ IsHeapOf(last.h, "FailOnArgs")
    /\ Len(last.x.arguments) = 1
    /\ IsErr(last.ret) /\ last.ret.val.kind = "ArgumentCount"

\* C3 - Error transparency: for either case of the handle, parse fails exactly
\* when the wrapped parser fails for that call, and then returns the wrapped
\* parser's failure (kind and message) unchanged.
ErrorTransparency ==
    last.op = "parse" =>
        LET w == WrappedRet(handles[last.h], boxes, cells, last.x)
        IN  /\ IsErr(last.ret) <=> IsErr(w)
            /\ IsErr(w) => last.ret.val = w.val

\* C3 witness: a function-case handle returned the failure of strict_block.
ErrorTransparencyWitness ==
    /\ last.op = "parse" /\ IsFun(last.h)
    /\ IsErr(last.ret)
    /\ last.ret.val.msg[2] = "requires an argument"

\* C4 - Cloning law: right after h.clone(), the clone and h return the same
\* result for every input; handles of one family whose parser has no state to
\* change agree in every state, however many clones were made; and a handle of
\* noop_block returns the fixed empty node whether or not it is a clone.
CloneLaw ==
    /\ last.op = "clone" =>
          \A x \in Inputs :
              ParseRet(handles[last.h], boxes, cells, x)
                  = ParseRet(handles[last.src], boxes, cells, x)
    /\ \A h1, h2 \in DOMAIN handles :
          (origin[h1] = origin[h2] /\ (IsFun(h1) \/ IsHeapOf(h1, "FailOnArgs"))) =>
              \A x \in Inputs :
                  ParseRet(handles[h1], boxes, cells, x)
                      = ParseRet(handles[h2], boxes, cells, x)
    /\ (last.op = "parse" /\ IsFun(last.h)
          /\ handles[origin[last.h]] = From_FnParseBlock("noop_block")) =>
              last.ret = Ok(EmptyNode)

\* C4 witness: the clone of a clone of an object that expects one argument has
\* just been made.
CloneLawWitness ==
    /\ last.op = "clone" /\ last.src # origin[last.src]
    /\ IsHeapOf(last.h, "OwnedArity")
    /\ HeapObj(last.src).arity = 1

\* Handles h1 and h2 are a handle and one of its clones (of any depth).
SameFamily(h1, h2) == h1 # h2 /\ origin[h1] = origin[h2]

\* C5 as claimed - Clone independence: changing the internal state of the
\* parser object of one handle never changes what a parse on a clone returns.
CloneIndependence ==
    [][ last'.op = "set" =>
          \A h2 \in DOMAIN handles :
              SameFamily(last'.h, h2) =>
                  \A x \in Inputs :
                      ParseRet(handles'[h2], boxes', cells', x)
                          = ParseRet(handles[h2], boxes, cells, x) ]_vars

\* C5 amended - Clone independence for state the parser type holds by value
\* (which its own clone copies): changing it through one handle never changes
\* what a parse on any other handle of the family returns.
CloneIndependenceByValue ==
    [][ (last'.op = "set" /\ HeapObj(last'.h).type = "OwnedArity") =>
          \A h2 \in DOMAIN handles :
              SameFamily(last'.h, h2) =>
                  \A x \in Inputs :
                      ParseRet(handles'[h2], boxes', cells', x)
                          = ParseRet(handles[h2], boxes, cells, x) ]_vars

\* C5 witness: the state of an OwnedArity object was changed through one handle
\* and a clone of the family still has the other state.
CloneIndependenceWitness ==
    /\ last.op = "set" /\ IsHeapOf(last.h, "OwnedArity")
    /\ \E h2 \in DOMAIN handles :
          /\ SameFamily(last.h, h2)
          /\ HeapObj(h2).arity # HeapObj(last.h).arity

\* C6 - Concurrent use: while one thread parses through h and another through
\* h.clone(), no step changes a handle, a parser object or a shared cell, and
\* each call ends with the result the same call returns when run alone, which
\* (nothing being changed) is its result in either sequential order.
ConcurrentParse ==
    /\ [](\A t \in Threads :
             pc[t] = "done" => tret[t] = ParseRet(handles[th[t]], boxes, cells, tin[t]))
    /\ [][<<handles, boxes, cells>>' = <<handles, boxes, cells>>]_vars

\* C6 witness: both calls are over, on handles sharing an Arc cell, one with a
\* failure and one with a node.
ConcurrentParseWitness ==
    /\ pc[1] = "done" /\ pc[2] = "done"
    /\ IsHeapOf(1, "SharedArity") /\ IsHeapOf(2, "SharedArity")
    /\ HeapObj(1).arc = HeapObj(2).arc
    /\ tin[1] # tin[2]
    /\ IsErr(tret[1]) /\ tret[2].ok

\* C7 - Construction and variant invariant: every handle, clones included,
\* holds the function case with a function reference or the object case with a
\* live box, and nothing else; from(f) yields the function case holding f and
\* from(box) the object case holding that box.
VariantInvariant ==
    /\ \A h \in DOMAIN handles :
          \/ /\ handles[h].parser.case = "Fun"
             /\ handles[h].parser.f.parser \in Fns
             /\ handles[h].parser.box = 0
          \/ /\ handles[h].parser.case = "Heap"
             /\ handles[h].parser.box \in DOMAIN boxes
             /\ handles[h].parser.f.parser = ""
    /\ last.op = "from_fn" =>
          handles[last.h].parser = Fun([parser |-> last.calls[1].fn])
    /\ last.op = "from_box" =>
          handles[last.h].parser = Heap(last.calls[1].box)

\* C7 witness: a handle has just been built from a function reference.
VariantInvariantWitness ==
    /\ last.op = "from_fn"
    /\ handles[last.h].parser.case = "Fun"
    /\ handles[last.h].parser.f.parser = "strict_block"

\* C8 - Immutability after construction: a parse or a clone changes no handle
\* that exists, no parser object that exists and no shared cell, and a parse
\* hands on the parameters it was given as they are.
Immutability ==
    [][ last'.op \in {"parse", "clone"} =>
          /\ \A h \in DOMAIN handles : h \in DOMAIN handles' /\ handles'[h] = handles[h]
          /\ \A b \in DOMAIN boxes : b \in DOMAIN boxes' /\ boxes'[b] = boxes[b]
          /\ cells' = cells
          /\ \A i \in DOMAIN last'.calls :
                last'.op = "parse" => last'.calls[i].args = last'.x ]_vars

\* C8 witness: a handle holding an object that expects one argument was cloned
\* and then one of the two parsed.
ImmutabilityWitness ==
    /\ last.op = "parse" /\ Len(handles) >= 2
    /\ IsHeapOf(last.h, "OwnedArity") /\ HeapObj(last.h).arity = 1
    /\ Len(last.x.arguments) = 1 /\ Len(last.x.tokens) = 1

\* C9 - Single forwarding, no retry: a parse calls the parse of the held case
\* once, with the four parameters it was given in their order, on success and
\* on failure alike (the function adapter in turn calls its function once), and
\* calls no duplication operation.
SingleForwarding ==
    last.op = "parse" =>
        IF IsFun(last.h)
        THEN last.calls = <<Call("FnBlockParser::parse", handles[last.h].parser.f.parser,
                                 0, last.x),
                            Call("fn", handles[last.h].parser.f.parser, 0, last.x)>>
        ELSE last.calls = <<Call("ParseBlock::parse", "", handles[last.h].parser.box,
                                 last.x)>>

\* C9 witness: the wrapped object failed and the parse was over after one call.
SingleForwardingWitness ==
    /\ last.op = "parse" /\ IsHeapOf(last.h, "OwnedArity")
    /\ IsErr(last.ret)
    /\ Len(last.calls) = 1

\* C10 - Clone preserves the case: the clone of a function-case handle is a
\* function-case handle with the same function reference, made without any
\* clone_box; the clone of an object-case handle is an object-case handle whose
\* box is new and holds the copy made by one clone_box call on the original's
\* object, that is by the type's own clone.
ClonePreservesCase ==
    last.op = "clone" =>
        /\ handles[last.h].parser.case = handles[last.src].parser.case
        /\ IsFun(last.src) =>
              /\ handles[last.h].parser.f.parser = handles[last.src].parser.f.parser
              /\ Callees(last.calls) \cap {"clone_box", "T::clone", "Box::clone"} = {}
        /\ IsHeap(last.src) =>
              /\ last.calls = <<Call("Box::clone", "", handles[last.src].parser.box, NoInput),
                                Call("clone_box", "", handles[last.src].parser.box, NoInput),
                                Call("T::clone", "", handles[last.src].parser.box, NoInput)>>
              /\ handles[last.h].parser.box = Len(boxes)
              /\ \A h \in DOMAIN handles :
                    h # last.h => handles[h].parser.box # handles[last.h].parser.box
              /\ HeapObj(last.h) = TypeClone(HeapObj(last.src))

\* C10 witness: the handle of an object holding an Arc has just been cloned.
ClonePreservesCaseWitness ==
    /\ last.op = "clone" /\ last.src = 1
    /\ IsHeapOf(last.src, "SharedArity") /\ IsHeapOf(last.h, "SharedArity")

====
